---------------------------- MODULE Spec2Model ----------------------------
(***************************************************************************)
(* Model of src/transformers/onnx/config.py: the ONNX export description   *)
(* (OnnxConfig, OnnxConfigWithPast), the external-data decision and the    *)
(* generation of dummy inputs through a tokenizer collaborator.            *)
(*                                                                         *)
(* Python values are encoded as follows:                                   *)
(*   True / False / None (as attribute values)  "True" / "False" / "None"  *)
(*   Optional[Mapping] return values            <<>> for None, <<m>> for m *)
(*   str                                        sequence of characters     *)
(*   int that may exceed 2^31                   <<high, low>> limbs        *)
(***************************************************************************)
EXTENDS Integers, Sequences, FiniteSets, TLC

VARIABLES
    cls,        \* the concrete OnnxConfig subclass this export uses
    config,     \* the PretrainedConfig object: attribute name -> value
    self,       \* <<>> while no instance exists, else <<attributes>>
    pc,         \* "idle", or the collaborator call generate_dummy_inputs waits in
    locals,     \* local variables of the running generate_dummy_inputs
    tok_calls,  \* the calls the tokenizer received from the latest operation
    last,       \* the latest finished operation: what was called, returned, raised
    built       \* how the instance was constructed, and the objects as they were then

vars == <<cls, config, self, pc, locals, tok_calls, last, built>>

-----------------------------------------------------------------------------
(* Bounds of the model *)

\* requested sequence lengths: -MaxNegative .. 1, and MaxDimension
MaxNegative == 2
MaxDimension == 5
\* requested batch sizes: -1 .. MaxBatch
MaxBatch == 1
\* num_special_tokens_to_add answers 0 .. MaxSpecialTokens
MaxSpecialTokens == 3
\* parameter counts are taken within ParamDelta of the 2^29 boundary
ParamDelta == 2

Dimensions == ((0 - MaxNegative) .. 1) \cup {MaxDimension}
BatchSizes == (0 - 1) .. MaxBatch
SpecialTokenCounts == 0 .. MaxSpecialTokens
NumParameters ==
    {0, 1, 1000, 2^30, 2147483647} \cup ((2^29 - ParamDelta) .. (2^29 + ParamDelta))

\* Python attribute values of the model configuration
PyBool(b) == IF b THEN "True" ELSE "False"
PyNone == "None"

\* PretrainedConfig objects: with or without the optional use_cache attribute
Configs ==
    { [hidden_size |-> "768"] }
    \cup { [hidden_size |-> "768", use_cache |-> v] : v \in {"True", "False", PyNone} }

\* hasattr(obj, name)
hasattr(obj, name) == name \in DOMAIN obj

\* Concrete subclasses: which abstract properties the subclass overrides and
\* whether it derives from OnnxConfigWithPast
Classes ==
    [ past_aware : BOOLEAN, implemented : SUBSET {"inputs", "outputs"} ]

Frameworks == { PyNone, "pt" }
UnkTokens == { <<"?">>, <<"u", "n", "k">> }
Tokenizers == [ unk_token : UnkTokens ]
Exceptions == { "ValueError", "KeyError" }
\* what the tokenizer may answer when called on a batch
Encodings ==
    { [input_ids |-> "tensor"], [input_ids |-> "tensor", attention_mask |-> "tensor"] }

None == <<>>
Some(x) == <<x>>

NoLocals == [frame |-> "none"]
NoCall == [op |-> "none"]

-----------------------------------------------------------------------------
(* Python built-ins used by the code *)

\* s * n for a str or list s: n copies of s, nothing when n <= 0
RECURSIVE Repeat(_, _)
Repeat(s, n) == IF n <= 0 THEN <<>> ELSE s \o Repeat(s, n - 1)

\* sep.join(strings)
RECURSIVE join(_, _)
join(sep, strings) ==
    IF strings = <<>> THEN <<>>
    ELSE IF Len(strings) = 1 THEN strings[1]
    ELSE strings[1] \o sep \o join(sep, Tail(strings))

\* dict(mapping)
dict(mapping) == [k \in DOMAIN mapping |-> mapping[k]]

\* Arbitrary-precision int arithmetic on <<high, low>> limbs, low < LimbBase
LimbBase == 2^16
PyInt(n) == <<n \div LimbBase, n % LimbBase>>
PyIntMul(a, k) ==
    LET low == a[2] * k
    IN  <<a[1] * k + (low \div LimbBase), low % LimbBase>>
PyIntGeq(a, b) == a[1] > b[1] \/ (a[1] = b[1] /\ a[2] >= b[2])

-----------------------------------------------------------------------------
(* transformers/onnx/utils.py, which config.py imports *)

\* ParameterFormat.Float.size: the byte width of a 32-bit float
FloatSize == 4

\* compute_serialized_parameters_size(num_parameters, dtype)
compute_serialized_parameters_size(num_parameters, dtype_size) ==
    PyIntMul(PyInt(num_parameters), dtype_size)

\* compute_effective_axis_dimension(dimension, fixed_dimension, num_token_to_add)
compute_effective_axis_dimension(dimension, fixed_dimension, num_token_to_add) ==
    LET base == IF dimension <= 0 THEN fixed_dimension ELSE dimension
    IN  base - num_token_to_add

-----------------------------------------------------------------------------
(* transformers/onnx/config.py *)

DEFAULT_ONNX_OPSET == 11

\* 2 * 1024 * 1024 * 1024
EXTERNAL_DATA_FORMAT_SIZE_LIMIT ==
    PyIntMul(PyIntMul(PyIntMul(PyInt(2), 1024), 1024), 1024)

\* mutant: outputs is not declared abstract
abstractmethods_inputs_only(c) == {"inputs"} \ c.implemented

\* the abstract properties of OnnxConfig a subclass has left unimplemented
abstractmethods(c) == {"inputs", "outputs"} \ c.implemented

\* OnnxConfig.__init__ / OnnxConfigWithPast.__init__: the attributes set.
\* kwargs is <<>> when use_past is not passed (it defaults to False) and
\* <<b>> when use_past=b is passed; _config refers to the config object.
init(c, kwargs) ==
    LET use_past == IF kwargs = <<>> THEN FALSE ELSE kwargs[1]
    IN  IF c.past_aware
        THEN [_config |-> "config", use_past |-> PyBool(use_past)]
        ELSE [_config |-> "config"]

\* cls(config, ...): instantiating a class that still has abstract methods
\* raises TypeError, otherwise __init__ runs
new(c, kwargs) ==
    IF abstractmethods(c) # {}
    THEN [exc |-> "TypeError", obj |-> None]
    ELSE [exc |-> PyNone, obj |-> Some(init(c, kwargs))]

\* mutant: values_override reports the config's current use_cache value
values_override_current(cfg) ==
    IF hasattr(cfg, "use_cache") THEN Some([use_cache |-> cfg.use_cache]) ELSE None

\* mutant: values_override follows use_past where the instance has it
values_override_use_past(cfg) ==
    IF hasattr(cfg, "use_cache")
    THEN Some([use_cache |-> IF self # None /\ hasattr(self[1], "use_past")
                             THEN self[1].use_past ELSE "False"])
    ELSE None

\* OnnxConfig.values_override
values_override(cfg) ==
    IF hasattr(cfg, "use_cache") THEN Some([use_cache |-> "False"]) ELSE None

\* mutant: config_values_override ignores use_past
config_values_override_false(cfg, obj) ==
    IF hasattr(cfg, "use_cache") THEN Some([use_cache |-> "False"]) ELSE None

\* OnnxConfigWithPast.config_values_override
config_values_override(cfg, obj) ==
    IF hasattr(cfg, "use_cache") THEN Some([use_cache |-> obj.use_past]) ELSE None

\* mutant: the limit is compared with > instead of >=
use_external_data_format_strict(num_parameters) ==
    ~PyIntGeq(EXTERNAL_DATA_FORMAT_SIZE_LIMIT,
              compute_serialized_parameters_size(num_parameters, FloatSize))

\* OnnxConfig.use_external_data_format
use_external_data_format(num_parameters) ==
    PyIntGeq(compute_serialized_parameters_size(num_parameters, FloatSize),
             EXTERNAL_DATA_FORMAT_SIZE_LIMIT)

\* generate_dummy_inputs, line 146: the effective batch dimension
effective_batch_size(batch_size) ==
    compute_effective_axis_dimension(batch_size, 2, 0)

\* mutant: the special tokens are not passed on
effective_seq_length_unreserved(seq_length, token_to_add) ==
    compute_effective_axis_dimension(seq_length, 8, 0)

\* generate_dummy_inputs, line 150: the effective sequence dimension
effective_seq_length(seq_length, token_to_add) ==
    compute_effective_axis_dimension(seq_length, 8, token_to_add)

\* generate_dummy_inputs, line 153: the batch of placeholder texts
dummy_input(tokenizer, seq_length, batch_size) ==
    Repeat(<< Repeat(join(<<" ">>, <<tokenizer.unk_token>>), seq_length) >>, batch_size)

-----------------------------------------------------------------------------
(* The state machine *)

Init ==
    /\ cls \in Classes
    /\ config \in Configs
    /\ self = None
    /\ pc = "idle"
    /\ locals = NoLocals
    /\ tok_calls = <<>>
    /\ last = NoCall
    /\ built = NoCall

\* the outcome of a construction through factory or constructor `op`
Constructed(op, kwargs) ==
    LET r == new(cls, kwargs)
    IN  /\ self' = r.obj
        /\ last' = [op |-> op, kwargs |-> kwargs, exc |-> r.exc]
        /\ built' = IF r.obj = None THEN built
                    ELSE [op |-> op, kwargs |-> kwargs, config |-> config, self |-> r.obj]
        /\ UNCHANGED <<cls, config, pc, locals, tok_calls>>

\* cls(config) and, for a subclass of OnnxConfigWithPast, cls(config, use_past=b)
Construct ==
    /\ pc = "idle" /\ self = None
    /\ \E kwargs \in {<<>>, <<TRUE>>, <<FALSE>>} :
          /\ kwargs # <<>> => cls.past_aware
          /\ Constructed("__init__", kwargs)

\* cls.default(config)
Default ==
    /\ pc = "idle" /\ self = None
    /\ Constructed("default", <<>>)

\* cls.with_past(config)
WithPast ==
    /\ pc = "idle" /\ self = None
    /\ cls.past_aware
    /\ Constructed("with_past", <<TRUE>>)

\* mutant: the override is applied to the config instead of only returned
ValuesOverrideApplied ==
    /\ pc = "idle" /\ self # None
    /\ last' = [op |-> "values_override", ret |-> values_override(config), exc |-> PyNone]
    /\ config' = IF hasattr(config, "use_cache")
                 THEN [config EXCEPT !.use_cache = "False"] ELSE config
    /\ tok_calls' = <<>>
    /\ UNCHANGED <<cls, self, pc, locals, built>>

\* reading self.values_override
ValuesOverride ==
    /\ pc = "idle" /\ self # None
    /\ last' = [op |-> "values_override", ret |-> values_override(config), exc |-> PyNone]
    /\ tok_calls' = <<>>
    /\ UNCHANGED <<cls, config, self, pc, locals, built>>

\* reading self.config_values_override
ConfigValuesOverride ==
    /\ pc = "idle" /\ self # None
    /\ cls.past_aware
    /\ last' = [op |-> "config_values_override",
                ret |-> config_values_override(config, self[1]), exc |-> PyNone]
    /\ tok_calls' = <<>>
    /\ UNCHANGED <<cls, config, self, pc, locals, built>>

\* reading self.default_onnx_opset
DefaultOnnxOpset ==
    /\ pc = "idle" /\ self # None
    /\ last' = [op |-> "default_onnx_opset", ret |-> DEFAULT_ONNX_OPSET, exc |-> PyNone]
    /\ tok_calls' = <<>>
    /\ UNCHANGED <<cls, config, self, pc, locals, built>>

\* OnnxConfig.use_external_data_format(num_parameters), a static method
UseExternalDataFormat ==
    /\ pc = "idle"
    /\ \E n \in NumParameters :
          last' = [op |-> "use_external_data_format", num_parameters |-> n,
                   ret |-> use_external_data_format(n), exc |-> PyNone]
    /\ tok_calls' = <<>>
    /\ UNCHANGED <<cls, config, self, pc, locals, built>>

\* generate_dummy_inputs up to its first call of the tokenizer: line 146, then
\* tokenizer.num_special_tokens_to_add(is_pair) of line 149
GenerateDummyInputs ==
    /\ pc = "idle" /\ self # None
    /\ \E tokenizer \in Tokenizers, batch_size \in BatchSizes, seq_length \in Dimensions,
          is_pair \in BOOLEAN, framework \in Frameworks :
          /\ locals' = [args |-> [tokenizer |-> tokenizer, batch_size |-> batch_size,
                                  seq_length |-> seq_length, is_pair |-> is_pair,
                                  framework |-> framework],
                        batch_size |-> effective_batch_size(batch_size),
                        seq_length |-> seq_length]
          /\ tok_calls' = << [method |-> "num_special_tokens_to_add", is_pair |-> is_pair,
                             raised |-> PyNone] >>
    /\ pc' = "num_special_tokens_to_add"
    /\ last' = NoCall
    /\ UNCHANGED <<cls, config, self, built>>

\* num_special_tokens_to_add answers: lines 149-153, then the call
\* tokenizer(dummy_input, return_tensors=framework) of line 154
NumSpecialTokensReturns ==
    /\ pc = "num_special_tokens_to_add"
    /\ \E token_to_add \in SpecialTokenCounts :
          LET seq == effective_seq_length(locals.seq_length, token_to_add)
              batch == dummy_input(locals.args.tokenizer, seq, locals.batch_size)
          IN  /\ locals' = [args |-> locals.args, batch_size |-> locals.batch_size,
                            seq_length |-> seq, token_to_add |-> token_to_add,
                            dummy_input |-> batch]
              /\ tok_calls' = Append(tok_calls,
                                [method |-> "__call__", text |-> batch,
                                 return_tensors |-> locals.args.framework,
                                 raised |-> PyNone])
    /\ pc' = "__call__"
    /\ UNCHANGED <<cls, config, self, last, built>>

\* the pending tokenizer call raises exc: nothing in generate_dummy_inputs
\* catches it, so the call ends with it
Raised(exc) ==
    /\ tok_calls' = [tok_calls EXCEPT ![Len(tok_calls)].raised = exc]
    /\ pc' = "idle"
    /\ locals' = NoLocals
    /\ last' = [op |-> "generate_dummy_inputs", args |-> locals.args,
                ret |-> None, exc |-> exc]
    /\ UNCHANGED <<cls, config, self, built>>

\* num_special_tokens_to_add raises
NumSpecialTokensRaises ==
    /\ pc = "num_special_tokens_to_add"
    /\ \E exc \in Exceptions : Raised(exc)

\* the tokenizer answers the batch: line 154 returns dict(encoding)
TokenizerReturns ==
    /\ pc = "__call__"
    /\ \E encoding \in Encodings :
          last' = [op |-> "generate_dummy_inputs", args |-> locals.args,
                   ret |-> Some(dict(encoding)), exc |-> PyNone]
    /\ pc' = "idle"
    /\ locals' = NoLocals
    /\ UNCHANGED <<cls, config, self, tok_calls, built>>

\* mutant: the tokenizer's exception is caught and an empty mapping returned
TokenizerRaisesCaught ==
    /\ pc = "__call__"
    /\ \E exc \in Exceptions :
          tok_calls' = [tok_calls EXCEPT ![Len(tok_calls)].raised = exc]
    /\ last' = [op |-> "generate_dummy_inputs", args |-> locals.args,
                ret |-> Some(<<>>), exc |-> PyNone]
    /\ pc' = "idle"
    /\ locals' = NoLocals
    /\ UNCHANGED <<cls, config, self, built>>

\* the tokenizer raises on the batch
TokenizerRaises ==
    /\ pc = "__call__"
    /\ \E exc \in Exceptions : Raised(exc)

Next ==
    \/ Construct
    \/ Default
    \/ WithPast
    \/ ValuesOverride
    \/ ConfigValuesOverride
    \/ DefaultOnnxOpset
    \/ UseExternalDataFormat
    \/ GenerateDummyInputs
    \/ NumSpecialTokensReturns
    \/ NumSpecialTokensRaises
    \/ TokenizerReturns
    \/ TokenizerRaises

Spec == Init /\ [][Next]_vars

-----------------------------------------------------------------------------
(* Properties *)

HasCache == hasattr(config, "use_cache")
Implemented == {"inputs", "outputs"} \subseteq cls.implemented

\* C1: use_external_data_format(n) returns true exactly when n * 4 bytes reach
\* 2^31 bytes, that is when n >= 2^29 = 536870912; true for 536870912 and
\* false for 536870911.
C1_ExternalDataIffTwoGiB ==
    last.op = "use_external_data_format" =>
        /\ last.ret <=> (last.num_parameters >= 536870912)
        /\ last.num_parameters = 536870912 => last.ret
        /\ last.num_parameters = 536870911 => ~last.ret

C1_Witness ==
    /\ last.op = "use_external_data_format"
    /\ last.num_parameters = 536870912
    /\ last.ret

\* C2: the effective dimension is fixed - reserved when the requested dimension
\* is <= 0 (0 and every negative value alike) and requested - reserved when it
\* is positive, for the batch (fixed 2, reserved 0) and for the sequence
\* (fixed 8, reserved the special-token count) of generate_dummy_inputs.
C2_EffectiveDimension ==
    /\ pc # "idle" =>
          locals.batch_size =
              IF locals.args.batch_size <= 0 THEN 2 ELSE locals.args.batch_size
    /\ pc = "__call__" =>
          locals.seq_length =
              IF locals.args.seq_length <= 0 THEN 8 - locals.token_to_add
              ELSE locals.args.seq_length - locals.token_to_add
    /\ compute_effective_axis_dimension(0 - 1, 2, 0) = 2
    /\ compute_effective_axis_dimension(0 - 1, 8, 2) = 6
    /\ compute_effective_axis_dimension(5, 8, 2) = 3

C2_Witness ==
    /\ pc = "__call__"
    /\ locals.args.seq_length = 0
    /\ locals.token_to_add = 2
    /\ locals.seq_length = 6

\* C3: the batch and sequence dimensions generate_dummy_inputs resolves are
\* never negative.
C3_EffectiveDimensionNeverNegative ==
    /\ pc # "idle" => locals.batch_size >= 0
    /\ pc = "__call__" => locals.seq_length >= 0

\* C4: values_override returns {use_cache: False} when the config has the
\* use_cache attribute, whatever its value, and None exactly when it has not;
\* it never raises.
C4_ValuesOverride ==
    last.op = "values_override" =>
        /\ last.exc = PyNone
        /\ HasCache => last.ret = Some([use_cache |-> "False"])
        /\ last.ret = None <=> ~HasCache

C4_Witness ==
    /\ last.op = "values_override"
    /\ HasCache /\ config.use_cache = "True"
    /\ last.ret = Some([use_cache |-> "False"])

\* the use_past the construction asked for
UsePastAsBuilt ==
    CASE built.op = "with_past" -> "True"
      [] built.op = "default" -> "False"
      [] built.op = "__init__" /\ built.kwargs = <<>> -> "False"
      [] OTHER -> PyBool(built.kwargs[1])

\* C5: config_values_override returns {use_cache: use_past} when the config has
\* the use_cache attribute and None otherwise; use_past is True after with_past,
\* False after default or after a construction that passes no flag.
C5_ConfigValuesOverride ==
    last.op = "config_values_override" =>
        last.ret = IF HasCache THEN Some([use_cache |-> UsePastAsBuilt]) ELSE None

C5_Witness ==
    /\ last.op = "config_values_override"
    /\ built.op = "with_past"
    /\ last.ret = Some([use_cache |-> "True"])

\* text is unit repeated exactly n times
RepeatedExactly(text, unit, n) ==
    /\ Len(text) = n * Len(unit)
    /\ \A p \in 1 .. Len(text) : text[p] = unit[((p - 1) % Len(unit)) + 1]

\* C6: the tokenizer is called on exactly B identical texts, each the unknown
\* token repeated exactly S times, B and S being the effective batch and
\* sequence dimensions; 2 texts of 8 repetitions for the default arguments
\* and no special tokens.
C6_DummyInputShape ==
    pc = "__call__" =>
        LET a == locals.args
            B == compute_effective_axis_dimension(a.batch_size, 2, 0)
            S == compute_effective_axis_dimension(a.seq_length, 8, locals.token_to_add)
            text == tok_calls[Len(tok_calls)].text
        IN  /\ Len(text) = B
            /\ \A i \in 1 .. Len(text) : RepeatedExactly(text[i], a.tokenizer.unk_token, S)

\* C7: once the instance exists, the config and the instance's attributes are
\* what they were when it was constructed.
C7_NothingMutated ==
    self # None => config = built.config /\ self = built.self

C7_Witness ==
    /\ self # None
    /\ last.op = "values_override"
    /\ last.ret = Some([use_cache |-> "False"])
    /\ config.use_cache = "True"

\* C8: constructing a subclass that does not implement both inputs and outputs
\* raises and yields no instance; one that implements both is constructed.
C8_AbstractAccessorsRequired ==
    /\ self # None => Implemented
    /\ last.op \in {"__init__", "default", "with_past"} =>
          IF Implemented THEN last.exc = PyNone /\ self # None
          ELSE last.exc # PyNone /\ self = None

C8_Witness ==
    /\ last.op = "default"
    /\ cls.implemented = {"inputs"}
    /\ last.exc = "TypeError"
    /\ self = None

\* the arguments of the running or just finished generate_dummy_inputs
CallerArgs == IF pc # "idle" THEN locals.args ELSE last.args

\* C9: num_special_tokens_to_add is asked before the sequence dimension is
\* resolved; the tokenizer is called on the batch at most once, with the
\* caller's framework hint; an exception of either call ends
\* generate_dummy_inputs with that exception, without another call and without
\* a result.
C9_TokenizerCalls ==
    /\ pc = "num_special_tokens_to_add" =>
          /\ "token_to_add" \notin DOMAIN locals
          /\ locals.seq_length = locals.args.seq_length
    /\ tok_calls # <<>> =>
          /\ tok_calls[1].method = "num_special_tokens_to_add"
          /\ Len(tok_calls) <= 2
          /\ \A i \in 2 .. Len(tok_calls) :
                /\ tok_calls[i].method = "__call__"
                /\ tok_calls[i].return_tensors = CallerArgs.framework
          /\ \A i \in 1 .. Len(tok_calls) - 1 : tok_calls[i].raised = PyNone
    /\ last.op = "generate_dummy_inputs" =>
          /\ last.exc = tok_calls[Len(tok_calls)].raised
          /\ last.exc # PyNone => last.ret = None
          /\ last.exc = PyNone => Len(tok_calls) = 2 /\ last.ret # None

C9_Witness ==
    /\ last.op = "generate_dummy_inputs"
    /\ Len(tok_calls) = 2
    /\ tok_calls[2].raised = "ValueError"
    /\ last.exc = "ValueError"
    /\ last.ret = None

\* C10: on an OnnxConfigWithPast whose config has use_cache, values_override is
\* {use_cache: False} whatever use_past is while config_values_override is
\* {use_cache: use_past}, so they differ after with_past; both are None
\* together exactly when use_cache is absent.
C10_ChannelsIndependent ==
    (self # None /\ cls.past_aware) =>
        LET forward == values_override(config)
            model == config_values_override(config, self[1])
        IN  /\ HasCache =>
                  /\ forward = Some([use_cache |-> "False"])
                  /\ model = Some([use_cache |-> self[1].use_past])
            /\ (HasCache /\ built.op = "with_past") =>
                  /\ model = Some([use_cache |-> "True"])
                  /\ forward # model
            /\ (forward = None) <=> ~HasCache
            /\ (model = None) <=> ~HasCache
            /\ (last.op = "values_override" /\ HasCache) =>
                  last.ret = Some([use_cache |-> "False"])

C10_Witness ==
    /\ self # None /\ cls.past_aware /\ HasCache
    /\ built.op = "with_past"
    /\ self[1].use_past = "True"
    /\ last.op = "values_override"
    /\ last.ret = Some([use_cache |-> "False"])

=============================================================================
